---- MODULE Spec2Model ----
(***************************************************************************)
(* Recent-files store of flowcraft-studio (src-tauri/src/main.rs, lib.rs). *)
(* Commands run concurrently on the worker pool; the AppState lives behind *)
(* one Mutex and is written to state.json as a whole after each mutation.  *)
(***************************************************************************)
EXTENDS Integers, Sequences, FiniteSets, Bags, TLC

\* ------------------------------------------------------------------ bounds
CAPACITY == 10          \* recent_files.truncate(10)
MaxOps == 2             \* commands and restarts in one behaviour
NumPaths == 11          \* file paths that are valid UTF-8
NumNames == 5           \* distinct final path components
PrefillMax == 10        \* longest history an earlier run left in state.json


\* ------------------------------------------------------------ path helpers
\* PathBufs are numbered: 1..NumPaths are valid UTF-8 and name themselves,
\* NumPaths+1 is not valid UTF-8.
PathBufs == 1..(NumPaths + 1)

\* Path::to_string_lossy: every invalid sequence becomes U+FFFD, so the
\* non-UTF-8 path renders as the string of the valid path NumPaths, whose
\* name holds U+FFFD at that place.
to_string_lossy(fp) == IF fp > NumPaths THEN NumPaths ELSE fp

\* Path::file_name().unwrap_or_default().to_string_lossy(): the final
\* component; 0 stands for the empty name of a path without one.
file_name(fp) == to_string_lossy(fp) % NumNames

\* `path: Some(p)` arguments (always UTF-8): the oldest path of the history.
\* Paths the picker can return: one not in the history, and its non-UTF-8 twin.
ArgPaths == {IF PrefillMax > CAPACITY THEN PrefillMax - CAPACITY + 1 ELSE 1}
DialogPaths == {NumPaths, NumPaths + 1}

\* ------------------------------------------------------- Vec<RecentFile>
RecentFile(p, n, t) == [path |-> p, name |-> n, last_opened |-> t]

Default == << >>

\* retain that forgets to drop the entry.
retain_all(list, path_str) == list

retain(list, path_str) == SelectSeq(list, LAMBDA f : f.path # path_str)

\* push instead of insert(0, ..).
insert_back(list, e) == list \o <<e>>

insert(list, e) == <<e>> \o list

\* truncate left out.
truncate_none(list, n) == list

truncate(list, n) == IF Len(list) > n THEN SubSeq(list, 1, n) ELSE list

\* clear left out.
clear_none(list) == list

clear(list) == << >>

Paths(list) == [i \in 1..Len(list) |-> list[i].path]

\* ------------------------------------------------------------- state.json
Absent == [kind |-> "absent", doc |-> << >>]
Corrupt == [kind |-> "corrupt", doc |-> << >>]

\* DateTime<Utc> <-> its RFC 3339 text.
\* A text that keeps no sub-second part.
to_rfc3339_coarse(t) == <<"T", 0, "Z">>

to_rfc3339(t) == <<"T", t, "Z">>

parse_rfc3339(s) == s[2]

\* serde_json::to_string_pretty(&AppState)
to_string_pretty(list) ==
    [kind |-> "json",
     doc |-> [i \in 1..Len(list) |->
                <<<<"path", list[i].path>>,
                  <<"name", list[i].name>>,
                  <<"last_opened", to_rfc3339(list[i].last_opened)>>>>]]

\* serde_json::from_str::<AppState>
from_str(content) ==
    IF content.kind = "json"
    THEN [ok |-> TRUE,
          val |-> [i \in 1..Len(content.doc) |->
                     RecentFile(content.doc[i][1][2],
                                content.doc[i][2][2],
                                parse_rfc3339(content.doc[i][3][2]))]]
    ELSE [ok |-> FALSE, val |-> Default]

\* What the environment does to one load: the data dir cannot be determined,
\* the file cannot be read, or the read goes through.
ReadOutcomes == {"ok", "nodir", "unreadable"}

load_app_state(file, env) ==
    IF env = "nodir" THEN [ok |-> FALSE, val |-> Default]
    ELSE IF file.kind = "absent" THEN [ok |-> TRUE, val |-> Default]
    ELSE IF env = "unreadable" THEN [ok |-> FALSE, val |-> Default]
    ELSE from_str(file)

\* What the environment does to one save: the write goes through, it fails
\* before the file is touched, or it fails after the file was truncated.
WriteOutcomes == {"ok", "err", "torn"}

\* A save that patches the document it finds: it cannot repair a torn one.
save_app_state_patch(list, file, env) ==
    IF env = "ok"
    THEN [ok |-> TRUE,
          file |-> IF file.kind = "corrupt" THEN file
                   ELSE to_string_pretty(list)]
    ELSE IF env = "err" THEN [ok |-> FALSE, file |-> file]
    ELSE [ok |-> FALSE, file |-> Corrupt]

\* A save that reports Ok without writing the file.
save_app_state_skip(list, file, env) == [ok |-> env = "ok", file |-> file]

save_app_state(list, file, env) ==
    IF env = "ok" THEN [ok |-> TRUE, file |-> to_string_pretty(list)]
    ELSE IF env = "err" THEN [ok |-> FALSE, file |-> file]
    ELSE [ok |-> FALSE, file |-> Corrupt]

\* unwrap() in its place: an Err panics and run() never starts the app.
unwrap(r) ==
    IF r.ok THEN [started |-> TRUE, state |-> r.val]
    ELSE [started |-> FALSE, state |-> Default]

\* Result::unwrap_or_default in run(): the store the process starts with.
unwrap_or_default(r) ==
    IF r.ok THEN [started |-> TRUE, state |-> r.val]
    ELSE [started |-> TRUE, state |-> Default]

\* The store an earlier run leaves after recording paths 1..k in that order.
RECURSIVE Prefill(_)
Prefill(k) ==
    IF k = 0 THEN Default
    ELSE truncate(insert(retain(Prefill(k - 1), to_string_lossy(k)),
                         RecentFile(to_string_lossy(k), file_name(k), 0)),
                  CAPACITY)

InitFiles == {Absent, Corrupt, to_string_pretty(Prefill(PrefillMax))}

\* ------------------------------------------------------------------ state
VARIABLES
    recent_files,   \* AppState.recent_files, the Vec behind the Mutex
    locked,         \* TRUE while some command holds the MutexGuard
    poisoned,       \* TRUE once a command panicked while holding the guard
    state_file,     \* content of <data_dir>/flowcraft-studio/state.json
    running,        \* FALSE once run() has panicked
    calls,          \* bag of the commands in flight, one record each
    ops,            \* commands started and restarts so far
    log,            \* path strings recorded since the last clear or start
    completed,      \* the list as the last completed mutation left it
    serial,         \* the list after the commands run one at a time
    serial_file,    \* state.json after the commands run one at a time
    last_write,     \* how the save_app_state of the last mutation went
    target,         \* the file whose validate_mermaid_syntax is registered
    content,        \* the argument of validate_mermaid_syntax, a sequence of
                    \* characters
    report          \* << >>, or <<r>> once the command has returned r

vars == <<recent_files, locked, poisoned, state_file, running, calls, ops,
          log, completed, serial, serial_file, last_write,
          target, content, report>>

\* What a call of validate_mermaid_syntax reads and writes: no store state.
validation == <<target, content, report>>

ghost == <<log, completed, serial, serial_file, last_write>>

None == 0

NoResult == [kind |-> "none", path |-> 0, list |-> << >>, msg |-> ""]
Ok(p, l) == [kind |-> "ok", path |-> p, list |-> l, msg |-> ""]
Err(m) == [kind |-> "err", path |-> 0, list |-> << >>, msg |-> m]

\* A command in flight: where it stands (pc), its PathBuf, what state.lock()
\* gave it, the Utc::now() it read, how its save_app_state call went, and what
\* it returned.
Call(c, at, fp) ==
    [cmd |-> c, pc |-> at, file_path |-> fp, guard |-> "none", stamp |-> 0,
     saved |-> "none", result |-> NoResult]

InFlight == BagToSet(calls)

\* One command moves from record c to record d.
Step(c, d) == calls' = (calls (-) SetToBag({c})) (+) SetToBag({d})

Records(c) == c.cmd \in {"save_file", "load_file"}

RECURSIVE Reverse(_)
Reverse(s) == IF s = << >> THEN << >> ELSE Reverse(Tail(s)) \o <<Head(s)>>

\* run(): manage(Mutex::new(load_app_state().unwrap_or_default()))
run(file, env) == unwrap_or_default(load_app_state(file, env))

Init ==
    \E f \in InitFiles, env \in ReadOutcomes :
        /\ state_file = f
        /\ recent_files = run(f, env).state
        /\ running = run(f, env).started
        /\ locked = FALSE
        /\ poisoned = FALSE
        /\ calls = EmptyBag
        /\ ops = 0
        /\ log = Reverse(Paths(run(f, env).state))
        /\ completed = run(f, env).state
        /\ serial = run(f, env).state
        /\ serial_file = f
        /\ last_write = "none"
        /\ target = "main.rs"
        /\ content = << >>
        /\ report = << >>

\* The process is killed and started again: commands in flight are gone.
Restart ==
    /\ ops < MaxOps
    /\ \E env \in ReadOutcomes :
        /\ recent_files' = run(state_file, env).state
        /\ running' = run(state_file, env).started
        /\ log' = Reverse(Paths(run(state_file, env).state))
        /\ completed' = run(state_file, env).state
        /\ serial' = run(state_file, env).state
    /\ serial_file' = state_file
    /\ last_write' = "none"
    /\ locked' = FALSE
    /\ poisoned' = FALSE
    /\ calls' = EmptyBag
    /\ ops' = ops + 1
    /\ UNCHANGED validation
    /\ UNCHANGED state_file

\* Utc::now(): the clock ticks once per command started, so two commands in
\* flight can read the same instant.
now == ops

\* The three steps of a recording, done in one piece.
record_access(list, fp, t) ==
    truncate(insert(retain(list, to_string_lossy(fp)),
                    RecentFile(to_string_lossy(fp), file_name(fp), t)),
             CAPACITY)

\* A lock that never blocks.
can_lock_always(held) == TRUE

\* Mutex::lock() blocks until no command holds the guard.
can_lock(held) == ~held

\* A command that takes the guard before it opens the picker.
enter_locked(held, at) == IF at = "dialog" THEN TRUE ELSE held

\* What entering a command does to the guard: nothing, state.lock() comes
\* after the picker and after the file I/O.
enter(held, at) == held

\* A command is dispatched to the worker pool: the `path` argument decides
\* between the picker and the file I/O.
Begin(c, at, path) ==
    /\ running
    /\ ops < MaxOps
    /\ ops' = ops + 1
    /\ locked' = enter(locked, at)
    /\ calls' = calls (+) SetToBag({Call(c, at, path)})
    /\ UNCHANGED validation
    /\ UNCHANGED <<recent_files, poisoned, state_file, running, ghost>>

save_file ==
    \E path \in ArgPaths \cup {None} :
        Begin("save_file", IF path = None THEN "dialog" ELSE "io", path)

load_file ==
    \E path \in ArgPaths \cup {None} :
        Begin("load_file", IF path = None THEN "dialog" ELSE "io", path)

get_recent_files == Begin("get_recent_files", "lock", None)

clear_recent_files == Begin("clear_recent_files", "lock", None)

\* blocking_save_file() / blocking_pick_file() returns a path.
DialogPick(c) ==
    /\ c.pc = "dialog"
    /\ \E fp \in DialogPaths : Step(c, [c EXCEPT !.file_path = fp, !.pc = "io"])
    /\ UNCHANGED validation
    /\ UNCHANGED <<recent_files, locked, poisoned, state_file, running, ops, ghost>>

\* The picker is dismissed: the command returns Err with a message.
DialogCancel(c) ==
    /\ c.pc = "dialog"
    /\ Step(c, [c EXCEPT !.pc = "done",
                         !.result = IF c.cmd = "save_file"
                                    THEN Err("File save cancelled")
                                    ELSE Err("File selection cancelled")])
    /\ UNCHANGED validation
    /\ UNCHANGED <<recent_files, locked, poisoned, state_file, running, ops, ghost>>

\* A command that records the path whatever the file I/O returned.
after_io_always(ok) == "lock"

\* Where the match on the file I/O sends the command: Ok goes on to the
\* recording, Err returns.
after_io(ok) == IF ok THEN "lock" ELSE "done"

\* fs::write / fs::read_to_string succeeds.
FileIoOk(c) ==
    /\ c.pc = "io"
    /\ Step(c, [c EXCEPT !.pc = after_io(TRUE)])
    /\ UNCHANGED validation
    /\ UNCHANGED <<recent_files, locked, poisoned, state_file, running, ops, ghost>>

\* fs::write / fs::read_to_string fails: Err with the cause, nothing recorded.
FileIoErr(c) ==
    /\ c.pc = "io"
    /\ Step(c, [c EXCEPT !.pc = after_io(FALSE),
                         !.result = IF c.cmd = "save_file"
                                    THEN Err("Failed to save file")
                                    ELSE Err("Failed to read file")])
    /\ UNCHANGED validation
    /\ UNCHANGED <<recent_files, locked, poisoned, state_file, running, ops, ghost>>

\* state.lock() returns the guard.
Lock(c) ==
    /\ c.pc = "lock"
    /\ can_lock(locked)
    /\ ~poisoned
    /\ locked' = TRUE
    /\ Step(c, [c EXCEPT !.guard = "ok",
                         !.pc = IF Records(c) THEN "retain"
                                ELSE IF c.cmd = "clear_recent_files"
                                THEN "clear" ELSE "clone"])
    /\ UNCHANGED validation
    /\ UNCHANGED <<recent_files, poisoned, state_file, running, ops, ghost>>

\* A command that passes the PoisonError on to its caller.
poisoned_result_strict(c) == Err("Failed to access recent files")

\* What a command returns when state.lock() is Err: `if let Ok(..)` of
\* save_file / load_file skips the recording and goes on to Ok(path), the
\* match of get_recent_files / clear_recent_files returns Err.
poisoned_result(c) ==
    IF Records(c) THEN Ok(to_string_lossy(c.file_path), << >>)
    ELSE Err("Failed to access recent files")

\* state.lock() returns Err(PoisonError): the store is not touched.
LockPoisoned(c) ==
    /\ c.pc = "lock"
    /\ can_lock(locked)
    /\ poisoned
    /\ Step(c, [c EXCEPT !.guard = "poisoned", !.pc = "done",
                         !.result = poisoned_result(c)])
    /\ UNCHANGED validation
    /\ UNCHANGED <<recent_files, locked, poisoned, state_file, running, ops,
                   ghost>>

\* recent_files.retain(|f| f.path != path_str)
Retain(c) ==
    /\ c.pc = "retain"
    /\ recent_files' = retain(recent_files, to_string_lossy(c.file_path))
    /\ Step(c, [c EXCEPT !.pc = "insert"])
    /\ UNCHANGED validation
    /\ UNCHANGED <<locked, poisoned, state_file, running, ops, ghost>>

\* recent_files.insert(0, RecentFile { path, name, last_opened: Utc::now() })
Insert(c) ==
    /\ c.pc = "insert"
    /\ recent_files' =
         insert(recent_files,
                RecentFile(to_string_lossy(c.file_path),
                           file_name(c.file_path), now))
    /\ Step(c, [c EXCEPT !.pc = "truncate", !.stamp = now])
    /\ UNCHANGED validation
    /\ UNCHANGED <<locked, poisoned, state_file, running, ops, ghost>>

\* Utc::now() panics (system time before the Unix epoch) between retain and
\* insert: the task dies without a reply and the unwinding guard poisons the
\* Mutex.
InsertPanic(c) ==
    /\ c.pc = "insert"
    /\ poisoned' = TRUE
    /\ locked' = FALSE
    /\ calls' = calls (-) SetToBag({c})
    /\ UNCHANGED validation
    /\ UNCHANGED <<recent_files, state_file, running, ops, ghost>>

\* recent_files.truncate(10)
Truncate(c) ==
    /\ c.pc = "truncate"
    /\ recent_files' = truncate(recent_files, CAPACITY)
    /\ Step(c, [c EXCEPT !.pc = "persist"])
    /\ UNCHANGED validation
    /\ UNCHANGED <<locked, poisoned, state_file, running, ops, ghost>>

\* recent_files.clear()
Clear(c) ==
    /\ c.pc = "clear"
    /\ recent_files' = clear(recent_files)
    /\ Step(c, [c EXCEPT !.pc = "persist"])
    /\ UNCHANGED validation
    /\ UNCHANGED <<locked, poisoned, state_file, running, ops, ghost>>

\* save_app_state(&app_state), still under the guard.
Persist(c) ==
    /\ c.pc = "persist"
    /\ \E env \in WriteOutcomes :
        /\ state_file' = save_app_state(recent_files, state_file, env).file
        /\ Step(c, [c EXCEPT !.pc = "return", !.saved = env])
    /\ UNCHANGED validation
    /\ UNCHANGED <<recent_files, locked, poisoned, running, ops, ghost>>

\* `save_app_state(..)?` in its place: the Err reaches the caller.
record_result_strict(fp, env) ==
    IF env = "ok" THEN Ok(to_string_lossy(fp), << >>)
    ELSE Err("Failed to save state")

\* The value save_file / load_file returns after the recording:
\* `let _ = save_app_state(..)` drops the Result.
record_result(fp, env) == Ok(to_string_lossy(fp), << >>)

\* A clear_recent_files that drops the Result of save_app_state.
clear_result_swallow(env) == Ok(0, << >>)

\* The value clear_recent_files returns: the `?` passes the Err on.
clear_result(env) ==
    IF env = "ok" THEN Ok(0, << >>) ELSE Err("Failed to save state")

\* The guard of save_file / load_file is dropped and the command returns.
RecordReturn(c) ==
    /\ c.pc = "return"
    /\ Records(c)
    /\ locked' = FALSE
    /\ Step(c, [c EXCEPT !.pc = "done",
                         !.result = record_result(c.file_path, c.saved)])
    /\ log' = Append(log, to_string_lossy(c.file_path))
    /\ completed' = recent_files
    /\ serial' = record_access(serial, c.file_path, c.stamp)
    /\ serial_file' = save_app_state(serial', serial_file, c.saved).file
    /\ last_write' = c.saved
    /\ UNCHANGED validation
    /\ UNCHANGED <<recent_files, poisoned, state_file, running, ops>>

\* The guard of clear_recent_files is dropped and the command returns.
ClearReturn(c) ==
    /\ c.pc = "return"
    /\ c.cmd = "clear_recent_files"
    /\ locked' = FALSE
    /\ Step(c, [c EXCEPT !.pc = "done", !.result = clear_result(c.saved)])
    /\ log' = << >>
    /\ completed' = recent_files
    /\ serial' = clear(serial)
    /\ serial_file' = save_app_state(serial', serial_file, c.saved).file
    /\ last_write' = c.saved
    /\ UNCHANGED validation
    /\ UNCHANGED <<recent_files, poisoned, state_file, running, ops>>

\* The caller is handed the Vec itself and the store is left empty.
Clone_take(c) ==
    /\ c.pc = "clone"
    /\ locked' = FALSE
    /\ recent_files' = << >>
    /\ Step(c, [c EXCEPT !.pc = "done", !.result = Ok(0, recent_files)])
    /\ UNCHANGED validation
    /\ UNCHANGED <<poisoned, state_file, running, ops, ghost>>

\* Ok(app_state.recent_files.clone()); the guard is dropped on return.
Clone(c) ==
    /\ c.pc = "clone"
    /\ locked' = FALSE
    /\ Step(c, [c EXCEPT !.pc = "done", !.result = Ok(0, recent_files)])
    /\ UNCHANGED validation
    /\ UNCHANGED <<recent_files, poisoned, state_file, running, ops, ghost>>

\* The reply reaches the caller and the worker goes back to the pool.
Reply(c) ==
    /\ c.pc = "done"
    /\ calls' = calls (-) SetToBag({c})
    /\ UNCHANGED validation
    /\ UNCHANGED <<recent_files, locked, poisoned, state_file, running, ops, ghost>>

Next ==
    \/ Restart
    \/ save_file
    \/ load_file
    \/ get_recent_files
    \/ clear_recent_files
    \/ \E c \in InFlight : DialogPick(c)
    \/ \E c \in InFlight : DialogCancel(c)
    \/ \E c \in InFlight : FileIoOk(c)
    \/ \E c \in InFlight : FileIoErr(c)
    \/ \E c \in InFlight : Lock(c)
    \/ \E c \in InFlight : LockPoisoned(c)
    \/ \E c \in InFlight : Retain(c)
    \/ \E c \in InFlight : Insert(c)
    \/ \E c \in InFlight : InsertPanic(c)
    \/ \E c \in InFlight : Truncate(c)
    \/ \E c \in InFlight : Clear(c)
    \/ \E c \in InFlight : Persist(c)
    \/ \E c \in InFlight : RecordReturn(c)
    \/ \E c \in InFlight : ClearReturn(c)
    \/ \E c \in InFlight : Clone(c)
    \/ \E c \in InFlight : Reply(c)

Spec == Init /\ [][Next]_vars

\* ------------------------------------------------- validate_mermaid_syntax
\* A String is a sequence of characters, each a one-character string.
LF == "\n"

CR == "\r"

UPPER ==
    <<"A", "B", "C", "D", "E", "F", "G", "H", "I", "J", "K", "L", "M",
      "N", "O", "P", "Q", "R", "S", "T", "U", "V", "W", "X", "Y", "Z">>

LOWER ==
    <<"a", "b", "c", "d", "e", "f", "g", "h", "i", "j", "k", "l", "m",
      "n", "o", "p", "q", "r", "s", "t", "u", "v", "w", "x", "y", "z">>

Least(S) == CHOOSE i \in S : \A j \in S : i <= j

Greatest(S) == CHOOSE i \in S : \A j \in S : j <= i

\* str::to_lowercase, on the ASCII letters
to_lowercase(s) ==
    [i \in DOMAIN s |->
        IF \E k \in DOMAIN UPPER : UPPER[k] = s[i]
        THEN LOWER[CHOOSE k \in DOMAIN UPPER : UPPER[k] = s[i]]
        ELSE s[i]]

\* char::is_whitespace, of the characters a diagram text is typed with
is_whitespace(ch) == ch \in {" ", "\t", CR, LF}

\* str::trim
trim(s) ==
    LET keep == {i \in DOMAIN s : ~is_whitespace(s[i])}
    IN  IF keep = {} THEN << >>
        ELSE SubSeq(s, Least(keep), Greatest(keep))

\* str::starts_with
starts_with(s, p) == Len(p) <= Len(s) /\ SubSeq(s, 1, Len(p)) = p

\* str::find: the index of the leftmost match of p in s, 0 for None
find(s, p) ==
    LET at == {i \in 1..(Len(s) - Len(p) + 1) :
                   SubSeq(s, i, i + Len(p) - 1) = p}
    IN  IF at = {} THEN 0 ELSE Least(at)

\* str::contains
contains(s, p) == find(s, p) # 0

\* str::matches(ch).count()
matches(s, ch) == Cardinality({i \in DOMAIN s : s[i] = ch})

RECURSIVE split(_, _)

\* str::split(p).collect(): the pieces between the matches of p, from the left
split(s, p) ==
    IF find(s, p) = 0 THEN <<s>>
    ELSE <<SubSeq(s, 1, find(s, p) - 1)>>
         \o split(SubSeq(s, find(s, p) + Len(p), Len(s)), p)

RECURSIVE split_whitespace(_)

\* str::split_whitespace: the non-empty runs of non-whitespace characters
split_whitespace(s) ==
    IF s = << >> THEN << >>
    ELSE IF is_whitespace(s[1]) THEN split_whitespace(Tail(s))
    ELSE LET ws == {i \in DOMAIN s : is_whitespace(s[i])}
             end == IF ws = {} THEN Len(s) + 1 ELSE Least(ws)
         IN  <<SubSeq(s, 1, end - 1)>>
             \o split_whitespace(SubSeq(s, end, Len(s)))

\* A line of str::lines loses the "\r" before its "\n".
strip_cr(line) ==
    IF line # << >> /\ line[Len(line)] = CR
    THEN SubSeq(line, 1, Len(line) - 1) ELSE line

RECURSIVE lines(_)

\* str::lines().collect(): the text is cut after every "\n"; a last line
\* without "\n" is kept as it is, and nothing follows a final "\n".
lines(s) ==
    IF s = << >> THEN << >>
    ELSE IF find(s, <<LF>>) = 0 THEN <<s>>
    ELSE <<strip_cr(SubSeq(s, 1, find(s, <<LF>>) - 1))>>
         \o lines(SubSeq(s, find(s, <<LF>>) + 1, Len(s)))

\* Vec::is_empty
is_empty(v) == v = << >>

\* A warning: the text, or the format string with its line and node id.
Warning(msg, line, id) == [msg |-> msg, line |-> line, id |-> id]

\* struct ValidationResult
ValidationResult(is_valid, errors, warnings) ==
    [is_valid |-> is_valid, errors |-> errors, warnings |-> warnings]

\* valid_diagrams of main.rs: three entries keep their capitals
valid_diagrams ==
    <<<<"g", "r", "a", "p", "h">>,
      <<"f", "l", "o", "w", "c", "h", "a", "r", "t">>,
      <<"s", "e", "q", "u", "e", "n", "c", "e", "d", "i", "a", "g", "r", "a", "m">>,
      <<"c", "l", "a", "s", "s", "D", "i", "a", "g", "r", "a", "m">>,
      <<"s", "t", "a", "t", "e", "D", "i", "a", "g", "r", "a", "m">>,
      <<"e", "r", "D", "i", "a", "g", "r", "a", "m">>,
      <<"j", "o", "u", "r", "n", "e", "y">>,
      <<"g", "a", "n", "t", "t">>,
      <<"p", "i", "e">>,
      <<"g", "i", "t", "g", "r", "a", "p", "h">>,
      <<"m", "i", "n", "d", "m", "a", "p">>,
      <<"t", "i", "m", "e", "l", "i", "n", "e">>,
      <<"z", "e", "n", "u", "m", "l">>,
      <<"s", "a", "n", "k", "e", "y">>>>

\* valid_diagrams of lib.rs: every entry is in lower case
lib_valid_diagrams ==
    <<<<"g", "r", "a", "p", "h">>,
      <<"f", "l", "o", "w", "c", "h", "a", "r", "t">>,
      <<"s", "e", "q", "u", "e", "n", "c", "e", "d", "i", "a", "g", "r", "a", "m">>,
      <<"c", "l", "a", "s", "s", "d", "i", "a", "g", "r", "a", "m">>,
      <<"s", "t", "a", "t", "e", "d", "i", "a", "g", "r", "a", "m">>,
      <<"e", "r", "d", "i", "a", "g", "r", "a", "m">>,
      <<"j", "o", "u", "r", "n", "e", "y">>,
      <<"g", "a", "n", "t", "t">>,
      <<"p", "i", "e">>,
      <<"g", "i", "t", "g", "r", "a", "p", "h">>,
      <<"m", "i", "n", "d", "m", "a", "p">>,
      <<"t", "i", "m", "e", "l", "i", "n", "e">>,
      <<"z", "e", "n", "u", "m", "l">>,
      <<"s", "a", "n", "k", "e", "y">>>>

\* main.rs: the lower-cased first line against the entries as they are written
has_valid_start(first_line) ==
    \E k \in DOMAIN valid_diagrams :
        \/ starts_with(first_line, valid_diagrams[k])
        \/ starts_with(first_line, valid_diagrams[k] \o <<":">>)
        \/ first_line = valid_diagrams[k]

\* lib.rs
lib_has_valid_start(first_line) ==
    \E k \in DOMAIN lib_valid_diagrams :
        starts_with(first_line, lib_valid_diagrams[k])

open_brackets(trimmed) ==
    matches(trimmed, "[") + matches(trimmed, "(") + matches(trimmed, "{")

close_brackets(trimmed) ==
    matches(trimmed, "]") + matches(trimmed, ")") + matches(trimmed, "}")

\* `parts` of the loop over the parts: the split on "---" is bound to a second
\* `parts` that lives only inside the `if parts.len() == 1` block.
parts(trimmed) == split(trimmed, <<"-", "-", ">">>)

\* part.trim().split_whitespace().next().unwrap_or("")
node_id(part) ==
    IF split_whitespace(trim(part)) = << >> THEN << >>
    ELSE split_whitespace(trim(part))[1]

\* The warnings of the node-id check of one line.
node_id_warnings(trimmed, line_num) ==
    IF contains(trimmed, <<"-", "-", ">">>)
       \/ contains(trimmed, <<"-", "-", "-">>)
    THEN LET spaced(part) ==
                 /\ contains(node_id(part), <<" ">>)
                 /\ ~starts_with(node_id(part), <<"[">>)
                 /\ ~starts_with(node_id(part), <<"(">>)
             found == SelectSeq(parts(trimmed), spaced)
         IN  [i \in DOMAIN found |->
                 Warning("Line {}: Node ID '{}' contains spaces",
                         line_num + 1, node_id(found[i]))]
    ELSE << >>

\* The warnings of one turn of `for (line_num, line) in lines.iter().enumerate()`
line_warnings(line, line_num) ==
    (IF open_brackets(trim(line)) # close_brackets(trim(line))
     THEN <<Warning("Line {}: Potentially unmatched brackets",
                    line_num + 1, << >>)>>
     ELSE << >>)
    \o node_id_warnings(trim(line), line_num)

RECURSIVE syntax_issues(_, _)

\* The loop over the lines, from line_num on.
syntax_issues(ls, line_num) ==
    IF line_num >= Len(ls) THEN << >>
    ELSE line_warnings(ls[line_num + 1], line_num)
         \o syntax_issues(ls, line_num + 1)

\* A report that rejects what it should accept.
is_valid_never(errors) == ~is_empty(errors)

\* let is_valid = errors.is_empty()
is_valid(errors) == is_empty(errors)

\* validate_mermaid_syntax of main.rs; nothing is ever pushed to `errors`.
validate_mermaid_syntax(text) ==
    LET errors == << >>
        ls == lines(text)
        first_line == to_lowercase(trim(ls[1]))
    IN  IF is_empty(ls)
        THEN ValidationResult(TRUE, errors,
                              <<Warning("Empty diagram", 0, << >>)>>)
        ELSE ValidationResult(
                 is_valid(errors), errors,
                 (IF ~has_valid_start(first_line)
                  THEN <<Warning("Diagram type not clearly specified in first line",
                                 0, << >>)>>
                  ELSE << >>)
                 \o syntax_issues(ls, 0))

\* validate_mermaid_syntax of lib.rs: the diagram-type check alone.
lib_validate_mermaid_syntax(text) ==
    LET errors == << >>
        ls == lines(text)
        first_line == to_lowercase(trim(ls[1]))
    IN  IF is_empty(ls)
        THEN ValidationResult(TRUE, errors,
                              <<Warning("Empty diagram", 0, << >>)>>)
        ELSE ValidationResult(
                 is_valid(errors), errors,
                 IF ~lib_has_valid_start(first_line)
                 THEN <<Warning("Diagram type not recognized. Make sure to start with a valid diagram type.",
                                0, << >>)>>
                 ELSE << >>)

\* Both files define the command and a run() that registers it.
Targets == {"main.rs", "lib.rs"}

\* The largest number of lines after the first one.
MaxBodyLines == 2

\* Every spelling of a keyword the inputs use: as the registries write it, and
\* in capitals.
Spellings ==
    {valid_diagrams[k] : k \in DOMAIN valid_diagrams}
    \cup {lib_valid_diagrams[k] : k \in DOMAIN lib_valid_diagrams}
    \cup {[i \in DOMAIN lib_valid_diagrams[k] |->
              IF \E j \in DOMAIN LOWER : LOWER[j] = lib_valid_diagrams[k][i]
              THEN UPPER[CHOOSE j \in DOMAIN LOWER :
                             LOWER[j] = lib_valid_diagrams[k][i]]
              ELSE lib_valid_diagrams[k][i]] : k \in DOMAIN lib_valid_diagrams}

Suffixes ==
    {<< >>,
     <<":">>,
     <<" ", "T", "D">>}

\* First lines: a keyword alone, with ":" or with a direction, and lines
\* that start with no keyword.
FirstLines ==
    {k \o s : k \in Spellings, s \in Suffixes}
    \cup {<< >>,
          <<"h", "e", "l", "l", "o">>,
          <<"g", "r", "a", "p">>,
          <<" ", " ", "G", "r", "a", "p", "h", " ", "T", "D", " ">>,
          <<"A", "-", "-", ">", "B">>}

BodyLines ==
    {<<"A", " ", "b", "-", "-", ">", "C">>,
     <<"A", " ", "-", "-", ">", "B">>,
     <<"A", "[", "S", "t", "a", "r", "t", " ", "-", "-", ">", " ", "B">>,
     <<"A", "-", "-", ">", "B">>,
     <<" ", "(", "A", " ", "b", "-", "-", "-", "C", ")">>,
     << >>}

RECURSIVE Text(_, _)

\* The first line and the lines after it, each begun by "\n".
Text(first, body) ==
    IF body = << >> THEN first
    ELSE Text(first \o <<LF>> \o Head(body), Tail(body))

\* The diagram texts the command is called with.
Contents ==
    {Text(f, b) : f \in FirstLines,
                  b \in UNION {[1..n -> BodyLines] : n \in 0..MaxBodyLines}}
    \cup {<<LF>>,
          <<"g", "r", "a", "p", "h", " ", "T", "D", LF>>,
          <<"g", "r", "a", "p", "h", " ", "T", "D", CR, LF, "A", "[", "x", CR, LF>>,
          <<"p", "i", "e", CR>>,
          <<" ", "	", " ">>}

\* The store as run() leaves it on a machine without a state.json.
InitValidate ==
    /\ recent_files = << >>
    /\ locked = FALSE
    /\ poisoned = FALSE
    /\ state_file = Absent
    /\ running = TRUE
    /\ calls = EmptyBag
    /\ ops = 0
    /\ log = << >>
    /\ completed = << >>
    /\ serial = << >>
    /\ serial_file = Absent
    /\ last_write = "none"
    /\ target \in Targets
    /\ content \in Contents
    /\ report = << >>

\* The command validate_mermaid_syntax(content) runs and returns Ok(report).
Validate ==
    /\ report = << >>
    /\ report' = <<IF target = "main.rs"
                   THEN validate_mermaid_syntax(content)
                   ELSE lib_validate_mermaid_syntax(content)>>
    /\ UNCHANGED <<target, content>>
    /\ UNCHANGED <<recent_files, locked, poisoned, state_file, running, calls,
                   ops, ghost>>

NextValidate == Validate

SpecValidate == InitValidate /\ [][NextValidate]_vars

\* ------------------------------- start-up from any well-formed state.json
\* The paths and the longest list of a state.json the program did not write.
SnapshotPaths == {1, 2}

MaxSnapshotLen == CAPACITY + 1

\* Documents serde_json::from_str::<AppState> accepts: it checks the shape of
\* each entry, not how many there are or whether two share a path. Every list
\* over SnapshotPaths, and one with MaxSnapshotLen different paths.
Snapshots ==
    UNION {{to_string_pretty([i \in 1..n |->
                                 RecentFile(p[i], file_name(p[i]), 0)]) :
                p \in [1..n -> SnapshotPaths]} : n \in 0..MaxSnapshotLen}
    \cup {to_string_pretty([i \in 1..MaxSnapshotLen |->
                                RecentFile(i, file_name(i), 0)])}

\* run() with whatever state.json it finds.
InitSeed ==
    \E f \in Snapshots \cup {Absent, Corrupt}, env \in ReadOutcomes :
        /\ state_file = f
        /\ recent_files = run(f, env).state
        /\ running = run(f, env).started
        /\ locked = FALSE
        /\ poisoned = FALSE
        /\ calls = EmptyBag
        /\ ops = 0
        /\ log = Reverse(Paths(run(f, env).state))
        /\ completed = run(f, env).state
        /\ serial = run(f, env).state
        /\ serial_file = f
        /\ last_write = "none"
        /\ target = "main.rs"
        /\ content = << >>
        /\ report = << >>

\* The process before its first mutation: starts and get_recent_files only.
NextSeed ==
    \/ Restart
    \/ get_recent_files
    \/ \E c \in InFlight : Lock(c)
    \/ \E c \in InFlight : Clone(c)
    \/ \E c \in InFlight : Reply(c)

SpecSeed == InitSeed /\ [][NextSeed]_vars

\* --------------------------------------- the store and the validator at once
\* Two of the diagram texts: one that gets warnings and one that gets none.
FrameContents ==
    {<<"A", "[", "x">>,
     <<"p", "i", "e">>}

\* run() as in Init, with either file's commands registered.
InitFrame ==
    \E f \in InitFiles, env \in ReadOutcomes :
        /\ state_file = f
        /\ recent_files = run(f, env).state
        /\ running = run(f, env).started
        /\ locked = FALSE
        /\ poisoned = FALSE
        /\ calls = EmptyBag
        /\ ops = 0
        /\ log = Reverse(Paths(run(f, env).state))
        /\ completed = run(f, env).state
        /\ serial = run(f, env).state
        /\ serial_file = f
        /\ last_write = "none"
        /\ target \in Targets
        /\ content = << >>
        /\ report = << >>

\* validate_mermaid_syntax(text) as one of the commands of a behaviour: it
\* takes no lock and no State, so it runs in one step.
InvokeValidate ==
    /\ running
    /\ ops < MaxOps
    /\ ops' = ops + 1
    /\ \E text \in FrameContents :
          /\ content' = text
          /\ report' = <<IF target = "main.rs"
                         THEN validate_mermaid_syntax(text)
                         ELSE lib_validate_mermaid_syntax(text)>>
    /\ UNCHANGED <<target, recent_files, locked, poisoned, state_file,
                   running, calls, ghost>>

\* Every command of the store, and validate_mermaid_syntax next to them.
NextFrame ==
    \/ Next
    \/ InvokeValidate

SpecFrame == InitFrame /\ [][NextFrame]_vars

\* --------------------------------------------------------------- properties
Range(s) == {s[i] : i \in 1..Len(s)}

Min(a, b) == IF a < b THEN a ELSE b

NoDup(list) ==
    \A i, j \in 1..Len(list) : i # j => list[i].path # list[j].path

Count(list, path_str) == Cardinality({i \in 1..Len(list) : list[i].path = path_str})

Others(list, path_str) == SelectSeq(list, LAMBDA f : f.path # path_str)

\* The place of the last recording of x in the log.
LastIndex(s, x) ==
    CHOOSE i \in 1..Len(s) : s[i] = x /\ \A j \in (i + 1)..Len(s) : s[j] # x

\* l lists the paths of log s by their last recording, latest first, and
\* stops after CAPACITY of them.
IsMostRecentFirst(l, s) ==
    /\ Len(l) = Min(Cardinality(Range(s)), CAPACITY)
    /\ \A i \in 1..Len(l) : l[i] \in Range(s)
    /\ \A i, j \in 1..Len(l) :
          i < j => LastIndex(s, l[i]) > LastIndex(s, l[j])
    /\ \A x \in Range(s) \ Range(l) :
          \A i \in 1..Len(l) : LastIndex(s, x) < LastIndex(s, l[i])

\* What list() can see: the Vec while no command holds the guard and the
\* Mutex is not poisoned.
Visible == ~locked /\ ~poisoned

\* C1: whenever the guard is free, the list holds the distinct paths recorded
\* since the last clear (or start), latest recording first, cut to 10: the
\* last recorded path is at index 0 and more than 10 distinct recorded paths
\* leave exactly 10 entries.
C1_MostRecentFirst ==
    Visible =>
        /\ IsMostRecentFirst(Paths(recent_files), log)
        /\ log # << >> => recent_files[1].path = log[Len(log)]
        /\ Cardinality(Range(log)) > CAPACITY => Len(recent_files) = CAPACITY

\* A recording has returned after more than 10 distinct paths were recorded.
C1_Witness ==
    /\ Visible
    /\ Cardinality(Range(log)) > CAPACITY
    /\ Len(recent_files) = CAPACITY
    /\ \E c \in InFlight :
          /\ Records(c) /\ c.pc = "done" /\ c.result.kind = "ok"
          /\ recent_files[1].path = to_string_lossy(c.file_path)

\* C2: a recording of a path that was in the list has put it at index 0,
\* kept the length, left one entry with that path and kept the order of the
\* other entries.
C2_Promote ==
    \A c \in InFlight :
        (/\ Records(c) /\ c.pc = "return"
         /\ Count(completed, to_string_lossy(c.file_path)) > 0)
        => /\ Len(recent_files) = Len(completed)
           /\ recent_files[1].path = to_string_lossy(c.file_path)
           /\ Count(recent_files, to_string_lossy(c.file_path)) = 1
           /\ Others(recent_files, to_string_lossy(c.file_path))
                = Others(completed, to_string_lossy(c.file_path))

\* A path that sat behind others in the list was recorded again.
C2_Witness ==
    \E c \in InFlight :
        /\ Records(c) /\ c.pc = "return"
        /\ Len(completed) > 1
        /\ completed[Len(completed)].path = to_string_lossy(c.file_path)
        /\ recent_files[1].path = to_string_lossy(c.file_path)

\* C3: in every state, the list holds at most one entry per path string.
C3_NoDuplicatePath == NoDup(recent_files)

\* Two recordings of the same path string have both completed.
C3_Witness ==
    /\ Len(log) > 1
    /\ log[Len(log)] = log[Len(log) - 1]
    /\ Count(recent_files, log[Len(log)]) = 1

\* C4: whenever the guard is free, the list holds at most 10 entries, and so
\* does every snapshot written.
C4_AtMostCapacity ==
    /\ Visible => Len(recent_files) <= CAPACITY
    /\ Len(state_file.doc) <= CAPACITY

\* A recording of a new path into a full list has completed.
C4_Witness ==
    /\ Visible
    /\ Len(recent_files) = CAPACITY
    /\ Cardinality(Range(log)) > CAPACITY
    /\ Len(completed) = CAPACITY

\* C5: whenever the guard is free, the list and state.json are those of the
\* commands run one at a time in the order they took the guard, and the list
\* has no duplicate path.
C5_Serializable ==
    Visible =>
        /\ recent_files = serial
        /\ state_file = serial_file
        /\ NoDup(recent_files)

\* A mutation has completed while another command was in flight and past its
\* file I/O.
C5_Witness ==
    /\ Visible
    /\ \E c, d \in InFlight :
          /\ c.pc = "done" /\ Records(c) /\ c.result.kind = "ok"
          /\ d.pc = "lock" /\ d.cmd # "get_recent_files"
    /\ recent_files = serial
    /\ recent_files # << >>

\* C6: the list a get_recent_files call returns is the list as the last
\* completed mutation left it.
C6_ListSeesCompleted ==
    [][\A d \in BagToSet(calls') :
          (/\ d.cmd = "get_recent_files" /\ d.pc = "done"
           /\ d.result.kind = "ok"
           /\ CopiesIn(d, calls') > CopiesIn(d, calls))
          => d.result.list = completed]_vars

\* get_recent_files has returned a non-empty list while a recording waits for
\* the guard.
C6_Witness ==
    \E c, d \in InFlight :
        /\ c.cmd = "get_recent_files" /\ c.pc = "done"
        /\ c.result.list # << >>
        /\ c.result.list = completed
        /\ Records(d) /\ d.pc = "lock"

\* The store a restart would begin with, whatever the read does.
Reloads == {run(state_file, env).state : env \in ReadOutcomes}

\* C7 as stated: once clear_recent_files has cleared and persisted, the list
\* is empty and a restart reloads an empty list.
C7_AsStated ==
    \A c \in InFlight :
        (c.cmd = "clear_recent_files" /\ c.pc = "return")
        => recent_files = << >> /\ Reloads = {<< >>}

\* C7 amended: once clear_recent_files has cleared and persisted, the list is
\* empty, and a restart reloads an empty list when the snapshot write
\* succeeded (the call returns Ok).
C7_ClearThenReload ==
    \A c \in InFlight :
        (c.cmd = "clear_recent_files" /\ c.pc = "return")
        => /\ recent_files = << >>
           /\ c.saved = "ok" => Reloads = {<< >>}

\* clear_recent_files has emptied a non-empty list and written the snapshot.
C7_Witness ==
    \E c \in InFlight :
        /\ c.cmd = "clear_recent_files" /\ c.pc = "return" /\ c.saved = "ok"
        /\ completed # << >>
        /\ recent_files = << >>
        /\ state_file.kind = "json"

JustStarted == calls = EmptyBag /\ ~locked /\ completed = recent_files

StartsEmpty ==
    /\ running = TRUE
    /\ state_file.kind \in {"absent", "corrupt"} => recent_files = << >>
    /\ recent_files \in {<< >>, from_str(state_file).val}

\* C9: a start (the first one and every restart) with state.json absent,
\* undecodable or unreadable gives an empty store, and the app runs.
C9_StartNeverFails ==
    /\ StartsEmpty
    /\ [][Restart => StartsEmpty']_vars

\* The process restarted on an undecodable snapshot.
C9_Witness ==
    /\ JustStarted
    /\ ops > 0
    /\ state_file.kind = "corrupt"
    /\ recent_files = << >>
    /\ running

\* C10: a recording whose snapshot write failed has updated the list as one
\* whose write succeeded (path at index 0, no duplicate, at most 10 entries),
\* and its command returns Ok with the path.
C10_WriteFailureSwallowed ==
    \A c \in InFlight :
        (Records(c) /\ c.saved \in {"err", "torn"})
        => /\ c.pc = "return" =>
                /\ recent_files = record_access(completed, c.file_path, c.stamp)
                /\ recent_files[1].path = to_string_lossy(c.file_path)
                /\ NoDup(recent_files)
                /\ Len(recent_files) <= CAPACITY
           /\ c.pc = "done" =>
                c.result = Ok(to_string_lossy(c.file_path), << >>)

\* save_file has returned Ok although its snapshot write failed.
C10_Witness ==
    \E c \in InFlight :
        /\ c.cmd = "save_file" /\ c.pc = "done" /\ c.saved = "err"
        /\ c.result.kind = "ok"
        /\ recent_files # << >>
        /\ recent_files[1].path = to_string_lossy(c.file_path)
        /\ state_file # to_string_pretty(recent_files)

\* C11: a clear_recent_files whose snapshot write failed has emptied the list
\* all the same, and the command returns Err.
C11_ClearSurvivesWriteFailure ==
    \A c \in InFlight :
        (c.cmd = "clear_recent_files" /\ c.saved \in {"err", "torn"})
        => /\ c.pc = "return" => recent_files = << >>
           /\ c.pc = "done" => c.result = Err("Failed to save state")

\* clear_recent_files has emptied a non-empty list, its write failed and the
\* old snapshot is still on disk.
C11_Witness ==
    \E c \in InFlight :
        /\ c.cmd = "clear_recent_files" /\ c.pc = "return" /\ c.saved = "err"
        /\ completed # << >>
        /\ recent_files = << >>
        /\ state_file = to_string_pretty(completed)

\* C12: whenever no command holds the guard and the write of the last mutation
\* succeeded, state.json is the whole in-memory list, in order.
C12_SnapshotIsWholeList ==
    (Visible /\ last_write = "ok")
    => /\ state_file = to_string_pretty(recent_files)
       /\ from_str(state_file) = [ok |-> TRUE, val |-> recent_files]

\* A recording into a full list has been written and no command is in flight.
C12_Witness ==
    /\ Visible
    /\ calls = EmptyBag
    /\ last_write = "ok"
    /\ Len(recent_files) = CAPACITY
    /\ log # Reverse(Paths(recent_files))
    /\ state_file = to_string_pretty(recent_files)

\* C13: a save_file / load_file whose picker was dismissed returns an outcome
\* that is not the error outcome and carries no message string.
C13_CancelIsDistinct ==
    \A c \in InFlight :
        (Records(c) /\ c.pc = "done" /\ c.file_path = None)
        => c.result.kind # "err" /\ c.result.msg = ""

\* C14: every command that found the Mutex poisoned returns an error, and the
\* process keeps running.
C14_PoisonIsReported ==
    \A c \in InFlight :
        (c.pc = "done" /\ c.guard = "poisoned")
        => c.result.kind = "err" /\ running

\* The pcs of a recording between the file I/O and the return.
Recording == {"lock", "retain", "insert", "truncate", "persist", "return"}

\* The return of save_file / load_file with Err has just happened.
Failed(d) ==
    /\ Records(d) /\ d.pc = "done" /\ d.result.kind = "err"
    /\ CopiesIn(d, calls') > CopiesIn(d, calls)

\* C15: a command is in its recording only with a path and an Ok from the file
\* I/O; a save_file / load_file that returns Err (the I/O failed, with the
\* cause, or the picker was dismissed) leaves the list, the recorded paths and
\* state.json as they were.
C15_RecordOnlyAfterIo ==
    [][/\ \A d \in BagToSet(calls') :
             (Records(d) /\ d.pc \in Recording)
             => d.result = NoResult /\ d.file_path # None
       /\ \A d \in BagToSet(calls') :
             Failed(d)
             => /\ recent_files' = recent_files
                /\ state_file' = state_file
                /\ log' = log
                /\ d.file_path = None
                     => d.result.msg \in {"File save cancelled",
                                          "File selection cancelled"}
                /\ d.file_path # None
                     => d.result.msg \in {"Failed to save file",
                                          "Failed to read file"}]_vars

\* save_file has returned Err for a failed fs::write and the full list is as
\* it was written.
C15_Witness ==
    \E c \in InFlight :
        /\ c.cmd = "save_file" /\ c.pc = "done"
        /\ c.result = Err("Failed to save file")
        /\ Len(recent_files) = CAPACITY
        /\ Count(recent_files, to_string_lossy(c.file_path)) = 0
        /\ state_file = to_string_pretty(recent_files)

\* The pcs at which a command holds the guard.
Critical == {"retain", "insert", "truncate", "clear", "persist", "return",
             "clone"}

\* C20: while a command waits in the picker, the guard is held only by a
\* command inside its critical section, and a command waiting for the guard
\* gets it as soon as no command is inside.
C20_PickerOutsideLock ==
    (\E c \in InFlight : c.pc = "dialog")
    => /\ locked => \E d \in InFlight : d.pc \in Critical
       /\ \A d \in InFlight :
             (d.pc = "lock" /\ \A e \in InFlight : e.pc \notin Critical)
             => ENABLED (Lock(d) \/ LockPoisoned(d))

\* A recording took the guard and completed while another command was waiting
\* in the picker: no command has started since the recording read the clock.
C20_Witness ==
    \E c, d \in InFlight :
        /\ c.pc = "dialog"
        /\ Records(d) /\ d.pc = "done" /\ d.guard = "ok"
        /\ d.stamp = ops
        /\ recent_files[1].path = to_string_lossy(d.file_path)
\* ----------------------------------------------- properties of the reports
Returned == report # << >>

IsTypeWarning(w) ==
    w.msg \in {"Diagram type not clearly specified in first line",
               "Diagram type not recognized. Make sure to start with a valid diagram type."}

IsBracketWarning(w) == w.msg = "Line {}: Potentially unmatched brackets"

IsNodeIdWarning(w) == w.msg = "Line {}: Node ID '{}' contains spaces"

\* The sides of the arrow token of a line, trimmed.
Sides(line) ==
    LET arrow == IF contains(line, <<"-", "-", ">">>)
                 THEN <<"-", "-", ">">> ELSE <<"-", "-", "-">>
    IN  IF contains(line, arrow)
        THEN [k \in DOMAIN split(line, arrow) |-> trim(split(line, arrow)[k])]
        ELSE << >>

\* An identifier with an embedded space and no leading bracket.
Spaced(id) ==
    /\ contains(id, <<" ">>)
    /\ ~starts_with(id, <<"[">>)
    /\ ~starts_with(id, <<"(">>)

\* C16: a line whose arrow has a side with an embedded space and no leading
\* '[' or '(' gets a node-id warning citing the line number and that
\* identifier ("A b" of "A b-->C"); a line without such a side gets no
\* node-id warning ("A -->B").
C16_NodeIdWarning ==
    Returned
    => \A i \in DOMAIN lines(content) :
          /\ \A k \in DOMAIN Sides(lines(content)[i]) :
                Spaced(Sides(lines(content)[i])[k])
                => \E w \in Range(report[1].warnings) :
                      /\ IsNodeIdWarning(w)
                      /\ w.line = i
                      /\ w.id = Sides(lines(content)[i])[k]
          /\ (\A k \in DOMAIN Sides(lines(content)[i]) :
                ~Spaced(Sides(lines(content)[i])[k]))
             => \A w \in Range(report[1].warnings) :
                   ~(IsNodeIdWarning(w) /\ w.line = i)

\* The lower-cased, trimmed first line starts with a registered keyword,
\* whatever the case the registry writes it in.
Recognized ==
    LET first == to_lowercase(trim(lines(content)[1]))
        registry == IF target = "main.rs" THEN valid_diagrams
                    ELSE lib_valid_diagrams
    IN  \E k \in DOMAIN registry :
            starts_with(first, to_lowercase(registry[k]))

\* C17: a first line that, trimmed and in any casing, starts with a
\* registered keyword (alone, followed by text or by ":") gets no
\* diagram-type warning; any other first line gets exactly one, and is_valid
\* stays true.
C17_TypeCheckIgnoresCase ==
    (Returned /\ lines(content) # << >>)
    => /\ Recognized
          => SelectSeq(report[1].warnings, IsTypeWarning) = << >>
       /\ ~Recognized
          => /\ Len(SelectSeq(report[1].warnings, IsTypeWarning)) = 1
             /\ report[1].is_valid

\* C18: every report has is_valid = TRUE and no errors; the report of the
\* empty text has the one warning "Empty diagram".
C18_NeverRejects ==
    Returned
    => /\ report[1].is_valid
       /\ report[1].errors = << >>
       /\ content = << >>
          => report[1].warnings = <<Warning("Empty diagram", 0, << >>)>>

\* A text with a bracket and a diagram-type finding has been reported valid.
C18_Witness ==
    /\ Returned
    /\ report[1].is_valid
    /\ \E w \in Range(report[1].warnings) : IsBracketWarning(w)
    /\ \E w \in Range(report[1].warnings) : IsTypeWarning(w)

\* The 1-based numbers of the lines whose opening and closing delimiters
\* differ in number, in line order.
Unbalanced ==
    LET ls == lines(content)
        odd(i) == matches(ls[i], "[") + matches(ls[i], "(")
                  + matches(ls[i], "{")
                  # matches(ls[i], "]") + matches(ls[i], ")")
                    + matches(ls[i], "}")
    IN  SelectSeq([i \in DOMAIN ls |-> i], odd)

\* C19: the bracket warnings of a report are those of the lines whose
\* counts of '[', '(', '{' and of ']', ')', '}' differ, one per line, in line
\* order, each with the 1-based line number, and after the diagram-type
\* warning.
C19_BracketWarningPerLine ==
    Returned
    => /\ [j \in DOMAIN SelectSeq(report[1].warnings, IsBracketWarning) |->
              SelectSeq(report[1].warnings, IsBracketWarning)[j].line]
          = Unbalanced
       /\ \A j \in DOMAIN report[1].warnings :
             IsTypeWarning(report[1].warnings[j]) => j = 1

\* C21: whatever well-formed state.json the process starts from, a
\* get_recent_files before the first mutation returns at most CAPACITY
\* entries, no two of them with the same path.
C21_SeededStoreIsValid ==
    \A c \in InFlight :
        (c.cmd = "get_recent_files" /\ c.pc = "done" /\ c.result.kind = "ok")
        => /\ Len(c.result.list) <= CAPACITY
           /\ NoDup(c.result.list)

\* A get_recent_files call has just been started, moved on or answered.
ListStep ==
    \/ \E d \in BagToSet(calls') :
          /\ d.cmd = "get_recent_files"
          /\ CopiesIn(d, calls') > CopiesIn(d, calls)
    \/ \E c \in InFlight :
          /\ c.cmd = "get_recent_files" /\ c.pc = "done"
          /\ CopiesIn(c, calls') < CopiesIn(c, calls)
          /\ ops' = ops

\* C22: no step of get_recent_files and no validate_mermaid_syntax changes
\* the list or state.json, and the report of validate_mermaid_syntax is the
\* one its text alone determines, whatever the store holds.
C22_ReadOnlyCommands ==
    [][/\ ListStep
          => recent_files' = recent_files /\ state_file' = state_file
       /\ report' # report
          => /\ recent_files' = recent_files
             /\ state_file' = state_file
             /\ report' = <<IF target = "main.rs"
                            THEN validate_mermaid_syntax(content')
                            ELSE lib_validate_mermaid_syntax(content')>>]_vars

\* With the full list in the store and on disk, get_recent_files has returned
\* it and validate_mermaid_syntax has returned its report.
C22_Witness ==
    /\ Returned
    /\ Len(recent_files) = CAPACITY
    /\ state_file = to_string_pretty(recent_files)
    /\ \E c \in InFlight :
          /\ c.cmd = "get_recent_files" /\ c.pc = "done"
          /\ c.result = Ok(0, recent_files)

\* The save_app_state of a mutation has just returned Ok, and the write of the
\* mutation before it had failed.
Repaired(d) ==
    /\ d.pc = "return" /\ d.saved = "ok"
    /\ CopiesIn(d, calls') > CopiesIn(d, calls)
    /\ last_write \in {"err", "torn"}

\* C23: when the write of a mutation succeeds after the write of the mutation
\* before it failed (state.json stale or torn), state.json holds the whole
\* list again, and a start that reads it gets exactly that list.
C23_NextWriteRepairs ==
    [][\A d \in BagToSet(calls') :
          Repaired(d)
          => /\ recent_files' = recent_files
             /\ state_file' = to_string_pretty(recent_files')
             /\ run(state_file', "ok").state = recent_files']_vars

\* state.json was torn by the last mutation; the next one has recorded a path
\* in the full list and written it, and the file holds the list.
C23_Witness ==
    \E d \in InFlight :
        /\ Records(d) /\ d.pc = "return" /\ d.saved = "ok"
        /\ last_write = "torn"
        /\ Len(recent_files) = CAPACITY
        /\ recent_files[1].path = to_string_lossy(d.file_path)
        /\ state_file = to_string_pretty(recent_files)
====
